---- MODULE Spec2Model ----
(***************************************************************************)
(* Model of the license-token server: TokenManager (token_manager.py) and  *)
(* the request handlers of server.py that read and mutate its store.       *)
(*                                                                         *)
(* Time is counted in seconds.  A datetime object, an ISO-8601 string and  *)
(* None are different values: isoformat / fromisoformat convert between    *)
(* the first two, and only where the code calls them.                      *)
(***************************************************************************)
EXTENDS Integers, Sequences, FiniteSets, TLC

\* ---------------------------------------------------------------- bounds
MaxTicks == 1        \* the clock advances at most this many hours
MaxUsed == 2         \* the sum of used_count over the store stays within this
MaxBatch == 2        \* descriptors in one sync batch
MaxCalls == 3        \* requests served in the threaded specification

\* ------------------------------------------------------ program constants
HOUR == 3600         \* timedelta(hours=1) in seconds
DAY == 86400         \* timedelta(days=1) in seconds

Tokens == {"t1", "t2"}
Handlers == {"h1", "h2"}

\* The values secrets.token_hex(16) yields in the runs explored.
GeneratedTokens == {"t2"}

\* ------------------------------------------------------------ value kinds
None == [k |-> "none", v |-> 0]
Dt(n) == [k |-> "dt", v |-> n]
Iso(n) == [k |-> "str", v |-> n]
BadStr == [k |-> "bad", v |-> 0]

\* An Optional[int] argument: NoInt stands for None.
NoInt == -1

\* Python truthiness of an Optional[int] (None and 0 are falsy).
TruthyInt(n) == n # NoInt /\ n # 0

\* Python truthiness of a timestamp slot (None is falsy; strings here are
\* non-empty and datetime objects are always truthy).
Truthy(x) == x.k # "none"

\* datetime.isoformat()
isoformat(d) == Iso(d.v)

\* datetime.fromisoformat() succeeds exactly on well-formed strings.
CanParse(s) == s.k = "str"

fromisoformat(s) == Dt(s.v)

\* str.strip() on the token strings the model uses.
Strip(s) == IF s = " t1" THEN "t1" ELSE s

EmptyStore == [t \in {} |-> None]

Put(store, t, info) ==
    [x \in DOMAIN store \cup {t} |-> IF x = t THEN info ELSE store[x]]

Remove(store, t) == [x \in DOMAIN store \ {t} |-> store[x]]

\* ------------------------------------------------------------ persistence
MissingFile == [kind |-> "missing", data |-> EmptyStore]
TruncatedFile == [kind |-> "truncated", data |-> EmptyStore]
JsonFile(data) == [kind |-> "json", data |-> data]

\* A JSON text that parses but is not an object of token -> record (a list,
\* a number, null, or an object whose values are numbers).
WrongShape == [kind |-> "wrongshape", data |-> EmptyStore]

\* The copy of one record that _save_tokens hands to json.dump: created_at
\* and expires_at are converted when they are datetime objects; last_used
\* is copied as it is.
SaveRecord(info) ==
    [info EXCEPT
        !.created_at = IF info.created_at.k = "dt"
                       THEN isoformat(info.created_at) ELSE info.created_at,
        !.expires_at = IF info.expires_at.k = "dt"
                       THEN isoformat(info.expires_at) ELSE info.expires_at]

\* json.dump raises TypeError on a value that is still a datetime object.
Serializable(rec) ==
    /\ rec.created_at.k # "dt"
    /\ rec.expires_at.k # "dt"
    /\ rec.last_used.k # "dt"

\* Mutant: only the serialisation error is caught, so a failing open()
\* reaches the caller.
SaveRaises_OpenEscapes(store, canWrite) == ~canWrite

\* Whether an exception leaves _save_tokens: the write is wrapped in
\* "try: ... except Exception", so neither a failing open() nor a failing
\* json.dump reaches the caller.
SaveRaises(store, canWrite) == FALSE

\* What _save_tokens leaves on disk.  open(..., "w") truncates the file and
\* json.dump (indent=2) writes chunk by chunk, so a TypeError in the middle
\* leaves an unterminated JSON text behind; the exception is swallowed.
\* On a read-only filesystem open() fails and the old content stays.
SaveTokens(store, old, writable) ==
    IF ~writable THEN old
    ELSE LET data == [t \in DOMAIN store |-> SaveRecord(store[t])]
         IN  IF \A t \in DOMAIN data : Serializable(data[t])
             THEN JsonFile(data)
             ELSE TruncatedFile

\* The snapshot "data" _save_tokens builds from the store.
Snapshot(store) == [t \in DOMAIN store |-> SaveRecord(store[t])]

\* The token strings in the order in which the dicts of the runs explored
\* hold them.
KeyOrder == <<"t1", "t2">>

\* The keys of a dict, in iteration order.
Keys(store) == SelectSeq(KeyOrder, LAMBDA t : t \in DOMAIN store)

\* The number of characters json.dump writes for an int.
Digits(n) == IF n < 10 THEN 1 ELSE IF n < 100 THEN 2 ELSE 3

\* The number of characters json.dump writes for a timestamp slot: null,
\* or a quoted ISO text of a whole second ("2024-01-01T00:00:00"); the
\* unparseable string of the runs explored is "garbage".
ValueSize(x) == IF x.k = "none" THEN 4 ELSE IF x.k = "bad" THEN 9 ELSE 21

\* The number of characters json.dump(indent=2) writes for one entry of the
\* store from its key up to the blank after '"last_used":': 122 for the
\* punctuation, the indentation and the six field names.
HeadSize(t, rec) ==
    122 + Len(t) + ValueSize(rec.created_at) + ValueSize(rec.expires_at)
        + (IF rec.active THEN 4 ELSE 5) + (Len(rec.description) + 2)
        + Digits(rec.used_count)

\* The same for the whole entry: the value of last_used and the closing
\* brace on a line of its own follow.
RecordSize(t, rec) == HeadSize(t, rec) + ValueSize(rec.last_used) + 4

\* The characters of the first n entries, each with the two characters that
\* precede it (the opening brace or a comma, and a line break).
RECURSIVE EntriesSize(_, _, _)
EntriesSize(data, keys, n) ==
    IF n = 0 THEN 0
    ELSE EntriesSize(data, keys, n - 1) + 2 + RecordSize(keys[n], data[keys[n]])

\* The length of the text json.dump(data, f, indent=2) writes.
TextSize(data) ==
    IF DOMAIN data = {} THEN 2
    ELSE EntriesSize(data, Keys(data), Len(Keys(data))) + 2

\* The length of that text up to the value of last_used of the k-th entry.
PrefixSize(data, k) ==
    EntriesSize(data, Keys(data), k - 1) + 2
        + HeadSize(Keys(data)[k], data[Keys(data)[k]])

\* The first entry json.dump raises TypeError on (its last_used is still a
\* datetime object), 0 when there is none.
FirstBad(data) ==
    LET bad == {i \in 1..Len(Keys(data)) : ~Serializable(data[Keys(data)[i]])}
    IN  IF bad = {} THEN 0 ELSE CHOOSE i \in bad : \A j \in bad : i <= j

\* What the text that ends at last_used of the k-th entry of data reads as
\* when the text of under goes on from there: the entries before it, the
\* k-th entry with under's last_used, and under's later entries.
Spliced(data, under, k) ==
    LET keys == Keys(data)
        ukeys == Keys(under)
        own == {keys[i] : i \in 1..k}
        later == {ukeys[j] : j \in (k + 1)..Len(ukeys)}
    IN  [t \in own \cup later |->
            IF t \in later THEN under[t]
            ELSE IF t = keys[k]
            THEN [data[t] EXCEPT !.last_used = under[ukeys[k]].last_used]
            ELSE data[t]]

\* The end of the "with" block of _save_tokens on a file that was opened
\* with "w" and holds `size` characters now: the buffered output of
\* json.dump (the whole text, or the text up to the value json.dump raised
\* on) is written from offset 0 and what the file holds beyond it stays.
\* A whole text followed by the rest of a longer one does not parse.  A
\* text cut at a last_used followed by the rest of a longer one parses when
\* that rest starts at the value of the same entry's last_used, or at the
\* blank before it.
WriteOver(content, size, data) ==
    LET k == FirstBad(data)
        n == IF k = 0 THEN TextSize(data) ELSE PrefixSize(data, k)
        under == content.data
        joins == /\ content.kind = "json"
                 /\ size = TextSize(under)
                 /\ k <= Len(Keys(under))
                 /\ PrefixSize(under, k) - n \in {0, 1}
    IN  IF size <= n
        THEN [content |-> IF k = 0 THEN JsonFile(data) ELSE TruncatedFile,
              size |-> n]
        ELSE [content |-> IF k # 0 /\ joins
                          THEN JsonFile(Spliced(data, under, k))
                          ELSE TruncatedFile,
              size |-> size]

\* The conversion _load_tokens applies to one record read from JSON.
LoadRecord(info) ==
    [info EXCEPT
        !.created_at = IF info.created_at.k \in {"str", "bad"}
                          /\ CanParse(info.created_at)
                       THEN fromisoformat(info.created_at) ELSE info.created_at,
        !.expires_at = IF Truthy(info.expires_at)
                          /\ info.expires_at.k \in {"str", "bad"}
                          /\ CanParse(info.expires_at)
                       THEN fromisoformat(info.expires_at) ELSE info.expires_at]

\* _load_tokens with TOKENS_JSON unset: the file, or an empty store when the
\* file is missing or json.load raises JSONDecodeError.
LoadTokens(fileContent) ==
    IF fileContent.kind = "json"
    THEN [t \in DOMAIN fileContent.data |-> LoadRecord(fileContent.data[t])]
    ELSE EmptyStore

\* len(data), data.items() and '"created_at" in info' raise TypeError or
\* AttributeError on a wrongly shaped value; _load_tokens catches only
\* JSONDecodeError and ValueError.
LoadRaises(content) == content.kind = "wrongshape"

\* json.loads / json.load succeed on the content.
Parses(content) == content.kind \in {"json", "wrongshape"}

\* _load_tokens as TokenManager() runs it: TOKENS_JSON first when it is set
\* (and not empty) and parses, the file otherwise.  ok = FALSE when an
\* exception leaves _load_tokens, and the process with it.
StartupLoad(envContent, fileContent) ==
    IF Parses(envContent)
    THEN [ok |-> ~LoadRaises(envContent), source |-> "env",
          tokens |-> LoadTokens(envContent)]
    ELSE [ok |-> ~LoadRaises(fileContent), source |-> "file",
          tokens |-> LoadTokens(fileContent)]

\* --------------------------------------------------------------- lifecycle
\* expires_at of create_token: days win over hours, a falsy value counts as
\* not given.
CreateExpiry(now_, days_valid, hours_valid) ==
    IF TruthyInt(days_valid) THEN Dt(now_ + days_valid * DAY)
    ELSE IF TruthyInt(hours_valid) THEN Dt(now_ + hours_valid * HOUR)
    ELSE None

NewRecord(now_, days_valid, hours_valid, description) ==
    [created_at |-> Dt(now_),
     expires_at |-> CreateExpiry(now_, days_valid, hours_valid),
     active |-> TRUE,
     description |-> description,
     used_count |-> 0,
     last_used |-> None]

\* The instant an expires_at slot denotes in is_valid (a string is parsed).
ExpiryInstant(e) == e.v

\* Mutant: a token counts as expired already at the instant of its expiry.
Expired_AtInstant(info, now_) ==
    Truthy(info.expires_at) /\ now_ >= ExpiryInstant(info.expires_at)

Expired(info, now_) ==
    Truthy(info.expires_at) /\ now_ > ExpiryInstant(info.expires_at)

\* Mutant: the expiry is checked before the active flag.
ValidReason_ExpiryFirst(store, t, now_) ==
    IF t \notin DOMAIN store THEN "not found"
    ELSE IF Expired(store[t], now_) THEN "expired"
    ELSE IF ~store[t].active THEN "deactivated"
    ELSE ""

\* The checks of is_valid in the order of the code; "" means they all pass.
ValidReason(store, t, now_) ==
    IF t \notin DOMAIN store THEN "not found"
    ELSE IF ~store[t].active THEN "deactivated"
    ELSE IF Expired(store[t], now_) THEN "expired"
    ELSE ""

\* Mutant: the counter is incremented but last_used is not set.
Touch_NoStamp(info, now_) ==
    [info EXCEPT !.used_count = info.used_count + 1]

\* The usage statistics update of a successful is_valid.
Touch(info, now_) ==
    [info EXCEPT !.used_count = info.used_count + 1, !.last_used = Dt(now_)]

\* ------------------------------------------------------------------- sync
\* One descriptor of a sync batch.  token "" stands for a missing (or empty)
\* token field, None for an absent timestamp, NoInt for an absent used_count;
\* has_active / has_description say whether the key is in the descriptor.
Desc(token, expires_at, created_at, has_active, active, has_description, description, used_count) ==
    [token |-> token, expires_at |-> expires_at, created_at |-> created_at,
     has_active |-> has_active, active |-> active,
     has_description |-> has_description, description |-> description,
     used_count |-> used_count]

Descriptors ==
    { Desc("t1", None, None, TRUE, FALSE, FALSE, "", NoInt),
      Desc("t1", Iso(0), Iso(0), TRUE, TRUE, TRUE, "d", 1),
      Desc("", None, None, TRUE, TRUE, FALSE, "", NoInt),
      Desc("t2", BadStr, None, TRUE, FALSE, FALSE, "", NoInt) }

\* A descriptor that renews t1: it carries an expires_at a day ahead,
\* switches the token on and clears its description.
Renewal == Desc("t1", Iso(DAY), None, TRUE, TRUE, TRUE, "", NoInt)

\* The batches explored: up to MaxBatch descriptors, no descriptor twice (a
\* repeated descriptor finds the record it has just written and rewrites the
\* same active flag and description), and the renewal sent on its own.
Batches ==
    UNION { { b \in [1..n -> Descriptors] :
                \A i, j \in 1..n : b[i] = b[j] => i = j } : n \in 0..MaxBatch }
    \cup {<<Renewal>>}

\* datetime.fromisoformat raises on the descriptor's timestamps (only the
\* branch for an unknown token parses them).
ParseFails(d) ==
    \/ Truthy(d.expires_at) /\ ~CanParse(d.expires_at)
    \/ Truthy(d.created_at) /\ ~CanParse(d.created_at)

\* Mutant: a descriptor without "active" yields an inactive record.
SyncNewRecord_InactiveDefault(d, now_) ==
    [created_at |-> IF Truthy(d.created_at) THEN fromisoformat(d.created_at)
                    ELSE Dt(now_),
     expires_at |-> IF Truthy(d.expires_at) THEN fromisoformat(d.expires_at)
                    ELSE None,
     active |-> d.has_active /\ d.active,
     description |-> IF d.has_description THEN d.description ELSE "",
     used_count |-> IF d.used_count = NoInt THEN 0 ELSE d.used_count,
     last_used |-> None]

\* The record sync_tokens inserts for an unknown token.
SyncNewRecord(d, now_) ==
    [created_at |-> IF Truthy(d.created_at) THEN fromisoformat(d.created_at)
                    ELSE Dt(now_),
     expires_at |-> IF Truthy(d.expires_at) THEN fromisoformat(d.expires_at)
                    ELSE None,
     active |-> IF d.has_active THEN d.active ELSE TRUE,
     description |-> IF d.has_description THEN d.description ELSE "",
     used_count |-> IF d.used_count = NoInt THEN 0 ELSE d.used_count,
     last_used |-> None]

\* Mutant: the update also takes the descriptor's used_count.
SyncUpdate_Overwrite(info, d) ==
    [info EXCEPT
        !.active = IF d.has_active THEN d.active ELSE info.active,
        !.description = IF d.has_description THEN d.description
                        ELSE info.description,
        !.used_count = IF d.used_count = NoInt THEN info.used_count
                       ELSE d.used_count]

\* The update sync_tokens applies to a record already in the store.
SyncUpdate(info, d) ==
    [info EXCEPT
        !.active = IF d.has_active THEN d.active ELSE info.active,
        !.description = IF d.has_description THEN d.description
                        ELSE info.description]

\* Mutant: a descriptor for a known token replaces the record's expires_at
\* by the one it carries.
SyncEntry_Renews(store, d, now_) ==
    IF d.token = "" THEN store
    ELSE IF d.token \notin DOMAIN store
    THEN IF ParseFails(d) THEN store
         ELSE Put(store, d.token, SyncNewRecord(d, now_))
    ELSE Put(store, d.token,
             [SyncUpdate(store[d.token], d) EXCEPT
                 !.expires_at = IF Truthy(d.expires_at) /\ CanParse(d.expires_at)
                                THEN fromisoformat(d.expires_at) ELSE @])

\* The body of the loop of sync_tokens for one descriptor.
SyncEntry(store, d, now_) ==
    IF d.token = "" THEN store
    ELSE IF d.token \notin DOMAIN store
    THEN IF ParseFails(d) THEN store
         ELSE Put(store, d.token, SyncNewRecord(d, now_))
    ELSE Put(store, d.token, SyncUpdate(store[d.token], d))

\* The loop of sync_tokens over the first n descriptors of the batch.
RECURSIVE SyncLoop(_, _, _, _)
SyncLoop(store, batch, n, now_) ==
    IF n = 0 THEN store
    ELSE SyncEntry(SyncLoop(store, batch, n - 1, now_), batch[n], now_)

\* The "synced" value of the response.
SyncedCount(batch) == Len(batch)

\* ------------------------------------------------------------------ reads
MINUTE == 60         \* divmod(remainder, 60) in seconds

Part(unit, n) == [unit |-> unit, n |-> n]

\* Mutant: the minutes are listed whenever they are not zero.
RemainingParts_MinutesAlways(delta) ==
    LET days == delta \div DAY
        hours == (delta % DAY) \div HOUR
        minutes == ((delta % DAY) % HOUR) \div MINUTE
    IN  (IF days > 0 THEN <<Part("days", days)>> ELSE <<>>)
        \o (IF hours > 0 THEN <<Part("hours", hours)>> ELSE <<>>)
        \o (IF minutes > 0 THEN <<Part("minutes", minutes)>> ELSE <<>>)

\* The list "parts" of get_time_remaining for a timedelta of delta seconds
\* (delta.days and delta.seconds, then the two divmod).
RemainingParts(delta) ==
    LET days == delta \div DAY
        hours == (delta % DAY) \div HOUR
        minutes == ((delta % DAY) % HOUR) \div MINUTE
    IN  (IF days > 0 THEN <<Part("days", days)>> ELSE <<>>)
        \o (IF hours > 0 THEN <<Part("hours", hours)>> ELSE <<>>)
        \o (IF minutes > 0 /\ days = 0 THEN <<Part("minutes", minutes)>>
            ELSE <<>>)

\* get_time_remaining(token): form "none" stands for None, "unlimited" for
\* "Бессрочный", "expired" for "Истёк", "less than a minute" for "Меньше
\* минуты"; a breakdown is the joined parts.
GetTimeRemaining(store, token, now_) ==
    IF token \notin DOMAIN store THEN [form |-> "none", parts |-> <<>>]
    ELSE IF ~Truthy(store[token].expires_at)
    THEN [form |-> "unlimited", parts |-> <<>>]
    ELSE IF now_ > ExpiryInstant(store[token].expires_at)
    THEN [form |-> "expired", parts |-> <<>>]
    ELSE LET parts == RemainingParts(
                          ExpiryInstant(store[token].expires_at) - now_)
         IN  IF parts # <<>> THEN [form |-> "breakdown", parts |-> parts]
             ELSE [form |-> "less than a minute", parts |-> <<>>]

\* A timestamp slot as list_tokens and get_token_info hand it out: a
\* datetime object is converted with isoformat.
Shown(x) == IF x.k = "dt" THEN isoformat(x) ELSE x

\* The entry list_tokens() builds for one record (expires_at is parsed when
\* it is a string and converted back).
ListRecord(info) ==
    [created_at |-> Shown(info.created_at),
     expires_at |-> IF info.expires_at.k = "str"
                    THEN Shown(fromisoformat(info.expires_at))
                    ELSE Shown(info.expires_at),
     active |-> info.active,
     description |-> info.description,
     used_count |-> info.used_count,
     last_used |-> Shown(info.last_used)]

\* list_tokens(active_only=False), by token.
ListTokensCall(store) == [t \in DOMAIN store |-> ListRecord(store[t])]

\* --------------------------------------------------------------- requests
\* The fields of one part of a request that get_token_from_request could
\* look at, by spelling of the key; "" stands for a key that is absent (or
\* empty: both are falsy).
Fields(token, Token, TOKEN) == [token |-> token, Token |-> Token, TOKEN |-> TOKEN]

NoFields == Fields("", "", "")

\* An HTTP request: is_json is request.is_json (the Content-Type), body the
\* object request.get_json(silent=True) yields, form request.form and args
\* request.args.
Req(is_json, body, form, args) ==
    [is_json |-> is_json, body |-> body, form |-> form, args |-> args]

NoRequest == Req(FALSE, NoFields, NoFields, NoFields)

\* The requests explored.
Requests ==
    { Req(TRUE, Fields("t1", "", ""), NoFields, Fields("t2", "", "")),
      Req(TRUE, Fields("", "t2", ""), NoFields, NoFields),
      Req(TRUE, NoFields, NoFields, Fields("t1", "", "")),
      Req(FALSE, NoFields, Fields("", "t2", ""), Fields("t1", "", "")),
      Req(FALSE, NoFields, NoFields, Fields("t1", "", "")),
      Req(FALSE, NoFields, NoFields, Fields("", "", "t1")),
      NoRequest }

\* Python's "a or b" on two optional strings.
Or(a, b) == IF a # "" THEN a ELSE b

\* get_token_from_request(); "" stands for None.
GetTokenFromRequest(req) ==
    IF req.is_json THEN Or(req.body.token, req.body.Token)
    ELSE IF Or(req.form.token, req.form.Token) # ""
    THEN Or(req.form.token, req.form.Token)
    ELSE IF Or(req.args.token, req.args.Token) # ""
    THEN Or(req.args.token, req.args.Token)
    ELSE ""

\* ------------------------------------------------------------------ state
VARIABLES
    tokens,     \* TokenManager.tokens
    disk,       \* content of tokens.json
    writable,   \* whether tokens.json can be opened for writing
    now,        \* datetime.now()
    resp,       \* what the last completed call returned, and its arguments
    pc,         \* threaded server: position of each request handler
    loc,        \* threaded server: local variables of each request handler
    hits,       \* threaded server: is_valid calls that returned True, per token
    calls,      \* threaded server: requests accepted so far
    seen,       \* threaded server: what the last list_tokens() returned
    fsize,      \* threaded server: characters tokens.json holds
    env,        \* content of the environment variable TOKENS_JSON
    up,         \* whether the process got past TokenManager()
    request     \* the last HTTP request handed to check_token

vars ==
    <<tokens, disk, writable, now, resp, pc, loc, hits, calls, seen, fsize,
      env, up, request>>

thread_vars == <<pc, loc, hits, calls, seen, fsize>>

host_vars == <<writable, env, up>>

NoBatch == <<>>

\* No list_tokens() result yet.
NoSeen == <<>>

Resp(op, token, valid, reason, ok, synced) ==
    [op |-> op, token |-> token, valid |-> valid, reason |-> reason,
     ok |-> ok, synced |-> synced]

NoResp == Resp("none", "", FALSE, "", FALSE, 0)

\* No entry of list_tokens under construction.
NoRow ==
    [created_at |-> None, expires_at |-> None, active |-> FALSE,
     description |-> "", used_count |-> 0, last_used |-> None]

\* The local variables of a handler that serves no request.
IdleLoc ==
    [token |-> "", read |-> 0, stamp |-> 0, batch |-> NoBatch, i |-> 0,
     snap |-> EmptyStore, ret |-> "idle", keys |-> <<>>, rows |-> NoSeen,
     row |-> NoRow]

Init ==
    /\ disk = MissingFile
    /\ writable = TRUE
    /\ tokens = LoadTokens(disk)
    /\ now = 0
    /\ resp = NoResp
    /\ pc = [h \in Handlers |-> "idle"]
    /\ loc = [h \in Handlers |-> IdleLoc]
    /\ hits = [t \in Tokens |-> 0]
    /\ calls = 0
    /\ seen = NoSeen
    /\ fsize = 0
    /\ env = MissingFile
    /\ up = TRUE
    /\ request = NoRequest

\* The sum of used_count over the store.
RECURSIVE SumUsed(_, _)
SumUsed(store, S) ==
    IF S = {} THEN 0
    ELSE LET t == CHOOSE x \in S : TRUE
         IN  store[t].used_count + SumUsed(store, S \ {t})

TotalUsed(store) == SumUsed(store, DOMAIN store)

\* ---------------------------------------------------- calls, one at a time
\* Mutant: the duplicate check is missing and the new record replaces the
\* one in the store.
CreateCall_Overwrite(store, file, canWrite, custom_token, days_valid, hours_valid, description, generated, now_) ==
    LET token == IF custom_token # "" THEN Strip(custom_token) ELSE generated
        added == Put(store, token,
                     NewRecord(now_, days_valid, hours_valid, description))
    IN  [tokens |-> added, disk |-> SaveTokens(added, file, canWrite),
         token |-> token, ok |-> TRUE, reason |-> ""]

\* create_token(custom_token, days_valid, hours_valid, description) on the
\* given store and file; generated is what secrets.token_hex(16) yields.
CreateCall(store, file, canWrite, custom_token, days_valid, hours_valid, description, generated, now_) ==
    LET token == IF custom_token # "" THEN Strip(custom_token) ELSE generated
        added == Put(store, token,
                     NewRecord(now_, days_valid, hours_valid, description))
    IN  IF token \in DOMAIN store
        THEN [tokens |-> store, disk |-> file, token |-> token,
              ok |-> FALSE, reason |-> "DuplicateToken"]
        ELSE [tokens |-> added, disk |-> SaveTokens(added, file, canWrite),
              token |-> token, ok |-> ~SaveRaises(added, canWrite),
              reason |-> ""]

\* With no custom token secrets.token_hex(16) yields a string not in the
\* store.
CreateToken(custom_token, days_valid, hours_valid, description) ==
    \E generated \in Tokens :
        /\ custom_token = "" => generated \in GeneratedTokens \ DOMAIN tokens
        /\ custom_token # "" => generated = Strip(custom_token)
        /\ \E r \in {CreateCall(tokens, disk, writable, custom_token,
                                 days_valid, hours_valid, description,
                                 generated, now)} :
               /\ tokens' = r.tokens
               /\ disk' = r.disk
               /\ resp' = Resp("create", r.token, FALSE, r.reason, r.ok, 0)
        /\ UNCHANGED <<host_vars, now, request, thread_vars>>

\* is_valid(token) run without interruption on the given store and file:
\* the store and the file it leaves and the pair it returns.
IsValidCall(store, file, canWrite, token, now_) ==
    LET reason == ValidReason(store, token, now_)
        touched == [store EXCEPT ![token] = Touch(store[token], now_)]
    IN  IF reason # ""
        THEN [tokens |-> store, disk |-> file, valid |-> FALSE,
              reason |-> reason, raised |-> FALSE]
        ELSE [tokens |-> touched,
              disk |-> SaveTokens(touched, file, canWrite),
              valid |-> TRUE, reason |-> "",
              raised |-> SaveRaises(touched, canWrite)]

IsValid(token) ==
    \E r \in {IsValidCall(tokens, disk, writable, token, now)} :
    /\ r.valid => TotalUsed(tokens) < MaxUsed
    /\ tokens' = r.tokens
    /\ disk' = r.disk
    /\ resp' = Resp("validate", token, r.valid, r.reason,
                    r.valid /\ ~r.raised, 0)
    /\ UNCHANGED <<host_vars, now, request, thread_vars>>

\* Mutant: deactivate_token sets the flag to True like activate_token.
SetActiveCall_AlwaysOn(store, file, canWrite, token, flag) ==
    LET set == [store EXCEPT ![token].active = TRUE]
    IN  IF token \notin DOMAIN store
        THEN [tokens |-> store, disk |-> file, ok |-> FALSE]
        ELSE [tokens |-> set, disk |-> SaveTokens(set, file, canWrite),
              ok |-> TRUE]

\* deactivate_token / activate_token on the given store and file.
SetActiveCall(store, file, canWrite, token, flag) ==
    LET set == [store EXCEPT ![token].active = flag]
    IN  IF token \notin DOMAIN store
        THEN [tokens |-> store, disk |-> file, ok |-> FALSE]
        ELSE [tokens |-> set, disk |-> SaveTokens(set, file, canWrite),
              ok |-> ~SaveRaises(set, canWrite)]

SetActive(op, token, flag) ==
    \E r \in {SetActiveCall(tokens, disk, writable, token, flag)} :
    /\ tokens' = r.tokens
    /\ disk' = r.disk
    /\ resp' = Resp(op, token, FALSE, "", r.ok, 0)
    /\ UNCHANGED <<host_vars, now, request, thread_vars>>

DeactivateToken(token) == SetActive("deactivate", token, FALSE)

ActivateToken(token) == SetActive("activate", token, TRUE)

\* Mutant: the snapshot is written before the token is looked up.
DeleteCall_SaveAlways(store, file, canWrite, token) ==
    LET rest == Remove(store, token)
    IN  IF token \notin DOMAIN store
        THEN [tokens |-> store, disk |-> SaveTokens(store, file, canWrite),
              ok |-> FALSE]
        ELSE [tokens |-> rest, disk |-> SaveTokens(rest, file, canWrite),
              ok |-> TRUE]

\* delete_token on the given store and file.
DeleteCall(store, file, canWrite, token) ==
    LET rest == Remove(store, token)
    IN  IF token \notin DOMAIN store
        THEN [tokens |-> store, disk |-> file, ok |-> FALSE]
        ELSE [tokens |-> rest, disk |-> SaveTokens(rest, file, canWrite),
              ok |-> ~SaveRaises(rest, canWrite)]

DeleteToken(token) ==
    \E r \in {DeleteCall(tokens, disk, writable, token)} :
    /\ tokens' = r.tokens
    /\ disk' = r.disk
    /\ resp' = Resp("delete", token, FALSE, "", r.ok, 0)
    /\ UNCHANGED <<host_vars, now, request, thread_vars>>

\* sync_tokens on the given store and file, for a request whose body has a
\* "tokens" list.
SyncCall(store, file, canWrite, batch, now_) ==
    CHOOSE r \in
        { [tokens |-> synced, disk |-> SaveTokens(synced, file, canWrite),
           ok |-> ~SaveRaises(synced, canWrite),
           synced |-> SyncedCount(batch)] :
          synced \in {SyncLoop(store, batch, Len(batch), now_)} } : TRUE

SyncTokens(batch) ==
    \E r \in {SyncCall(tokens, disk, writable, batch, now)} :
    /\ tokens' = r.tokens
    /\ disk' = r.disk
    /\ resp' = Resp("sync", "", FALSE, "", r.ok, r.synced)
    /\ UNCHANGED <<host_vars, now, request, thread_vars>>

\* check_token() on the given store and file: the tuple it returns.  The
\* tuple has 3 components (None, the rejection, its HTTP status) when the
\* token is missing or refused and 2 components (token, None) when it is
\* valid; "returned" is that length, 0 when is_valid raised.
CheckTokenCall(store, file, canWrite, req, now_) ==
    LET token == GetTokenFromRequest(req)
        r == IsValidCall(store, file, canWrite, token, now_)
    IN  IF token = ""
        THEN [tokens |-> store, disk |-> file, token |-> token,
              called |-> FALSE, ok |-> FALSE, detail |-> "Missing token",
              status |-> 400, returned |-> 3]
        ELSE IF r.raised
        THEN [tokens |-> r.tokens, disk |-> r.disk, token |-> token,
              called |-> TRUE, ok |-> FALSE, detail |-> "", status |-> 500,
              returned |-> 0]
        ELSE IF ~r.valid
        THEN [tokens |-> r.tokens, disk |-> r.disk, token |-> token,
              called |-> TRUE, ok |-> FALSE,
              detail |-> IF r.reason # "" THEN r.reason ELSE "Invalid token",
              status |-> 403, returned |-> 3]
        ELSE [tokens |-> r.tokens, disk |-> r.disk, token |-> token,
              called |-> TRUE, ok |-> TRUE, detail |-> "", status |-> 200,
              returned |-> 2]

\* The access endpoints of server.py.
Endpoints == {"activate", "heartbeat", "hook_config"}

\* What the client of an access endpoint receives.  body_token is the
\* "token" field of the JSON answer, "" when the answer has none.
Answer(status, ok, detail, body_token) ==
    [status |-> status, ok |-> ok, detail |-> detail,
     body_token |-> body_token]

\* The answer to a request whose handler raised: Flask turns an uncaught
\* exception into 500 Internal Server Error.
InternalError == Answer(500, FALSE, "Internal Server Error", "")

\* activate(), heartbeat(), hook_config() given what check_token() did (c):
\*     token, err = check_token()
\*     if err: return err
\*     return jsonify({"ok": True, ...})
\* Unpacking a tuple of 3 into two names raises ValueError.
EndpointAnswer(endpoint, c) ==
    IF c.returned # 2 THEN InternalError
    ELSE IF ~c.ok THEN Answer(200, FALSE, c.detail, "")
    ELSE Answer(200, TRUE, "", IF endpoint = "activate" THEN c.token ELSE "")

\* get_time_remaining(token), as a management call.
TimeRemaining(token) ==
    /\ resp' = Resp("time_remaining", token, FALSE,
                    GetTimeRemaining(tokens, token, now).form,
                    token \in DOMAIN tokens, 0)
    /\ UNCHANGED <<tokens, disk, host_vars, now, request, thread_vars>>

\* One request to an access endpoint.  resp records the token extracted,
\* whether is_valid was called and returned True, and the answer sent:
\* its detail, its ok and its HTTP status.
CheckToken(endpoint, req) ==
    \E c \in {CheckTokenCall(tokens, disk, writable, req, now)} :
    \E a \in {EndpointAnswer(endpoint, c)} :
    /\ c.ok => TotalUsed(tokens) < MaxUsed
    /\ tokens' = c.tokens
    /\ disk' = c.disk
    /\ request' = req
    /\ resp' = [op |-> "check", token |-> c.token, valid |-> c.ok,
                reason |-> a.detail, ok |-> a.ok, synced |-> 0,
                status |-> a.status]
    /\ UNCHANGED <<host_vars, now, thread_vars>>

\* The process is started again: TokenManager() loads the store, or the
\* exception of _load_tokens ends the process at import time.
Restart ==
    \E r \in {StartupLoad(env, disk)} :
    /\ tokens' = IF r.ok THEN r.tokens ELSE EmptyStore
    /\ up' = r.ok
    /\ resp' = Resp("restart", "", FALSE, "", r.ok, 0)
    /\ UNCHANGED <<disk, writable, env, now, request, thread_vars>>

\* The wall clock advances.
Tick ==
    /\ now < MaxTicks * HOUR
    /\ now' = now + HOUR
    /\ UNCHANGED <<tokens, disk, host_vars, resp, request, thread_vars>>

\* The create_token calls explored: (custom_token, days_valid, hours_valid).
\* "t1" is the custom string (also given padded); a call without a custom
\* string generates the other token.
CreateCalls ==
    { <<"t1", NoInt, NoInt>>, <<"t1", 1, 1>>, <<"t1", NoInt, 1>>,
      <<"t1", 0, 1>>, <<" t1", 0, NoInt>>, <<"", NoInt, NoInt>> }

Next ==
    \/ \E c \in CreateCalls : CreateToken(c[1], c[2], c[3], "")
    \/ \E t \in Tokens : IsValid(t)
    \/ \E t \in Tokens : DeactivateToken(t)
    \/ \E t \in Tokens : ActivateToken(t)
    \/ \E t \in Tokens : DeleteToken(t)
    \/ \E b \in Batches : SyncTokens(b)
    \/ Restart
    \/ Tick

Spec == Init /\ [][Next]_vars

\* ------------------------------------------------------ hosted deployment
\* The server as deployed on a host whose filesystem may be read-only and
\* whose environment may carry TOKENS_JSON (see update_render_env.py): the
\* process starts on whatever the environment and tokens.json hold, serves
\* the access endpoints of server.py and the management calls, and is
\* restarted by the host.  (Sync batches are explored in Spec and SpecConc.)
\* The snapshot update_render_env.py prints for two tokens created at time
\* 0, one valid for an hour, one for a day, an hour and five minutes.
EnvSnapshot ==
    [t \in Tokens |->
        [created_at |-> Iso(0),
         expires_at |-> IF t = "t1" THEN Iso(HOUR)
                        ELSE Iso(DAY + HOUR + 5 * MINUTE),
         active |-> TRUE, description |-> "", used_count |-> 0,
         last_used |-> None]]

\* The tokens.json an earlier process wrote on create_token("t2",
\* hours_valid=1), 55 minutes before time 0.
FileSnapshot ==
    SaveTokens(Put(EmptyStore, "t2",
                   NewRecord(5 * MINUTE - HOUR, NoInt, 1, "")),
               MissingFile, TRUE)

EnvContents == {MissingFile, TruncatedFile, WrongShape, JsonFile(EnvSnapshot)}

FileContents == {MissingFile, TruncatedFile, WrongShape, FileSnapshot}

InitHost ==
    /\ env \in EnvContents
    /\ disk \in FileContents
    /\ writable \in BOOLEAN
    /\ up = StartupLoad(env, disk).ok
    /\ tokens = IF up THEN StartupLoad(env, disk).tokens ELSE EmptyStore
    /\ now = 0
    /\ resp = NoResp
    /\ pc = [h \in Handlers |-> "idle"]
    /\ loc = [h \in Handlers |-> IdleLoc]
    /\ hits = [t \in Tokens |-> 0]
    /\ calls = 0
    /\ seen = NoSeen
    /\ fsize = 0
    /\ request = NoRequest

NextHost ==
    \/ up /\ \E e \in Endpoints, r \in Requests : CheckToken(e, r)
    \/ up /\ CreateToken("", NoInt, NoInt, "")
    \/ up /\ \E t \in Tokens : DeactivateToken(t)
    \/ up /\ \E t \in Tokens : ActivateToken(t)
    \/ up /\ \E t \in Tokens : DeleteToken(t)
    \/ up /\ \E t \in Tokens : TimeRemaining(t)
    \/ Restart
    \/ Tick

SpecHost == InitHost /\ [][NextHost]_vars

\* ------------------------------------------------------- threaded server
\* app.run() serves every request in a thread of its own, and nothing in
\* TokenManager or server.py takes a lock: a handler can be preempted
\* between any two statements, between the read and the write of
\*     info["used_count"] = info.get("used_count", 0) + 1
\* between the clock read and the store of
\*     info["last_used"] = datetime.now()
\* between the reads list_tokens makes of one record, and between the
\* snapshot, the open() and the close() of _save_tokens.
\* The handlers below are check_token -> is_valid, sync_tokens and the
\* list_tokens of root() and test(); server.py exposes no other call.

\* The store of a server started on the snapshot that an earlier
\* create_token("t1") wrote at time 0.
ConcStore ==
    LET created == Put(EmptyStore, "t1", NewRecord(0, NoInt, NoInt, ""))
    IN  LoadTokens(SaveTokens(created, MissingFile, TRUE))

InitConc ==
    /\ disk = SaveTokens(ConcStore, MissingFile, TRUE)
    /\ fsize = TextSize(disk.data)
    /\ writable = TRUE
    /\ tokens = LoadTokens(disk)
    /\ now = 0
    /\ resp = NoResp
    /\ pc = [h \in Handlers |-> "idle"]
    /\ loc = [h \in Handlers |-> IdleLoc]
    /\ hits = [t \in Tokens |-> 0]
    /\ calls = 0
    /\ seen = NoSeen
    /\ env = MissingFile
    /\ up = TRUE
    /\ request = NoRequest

Return(h) ==
    /\ pc' = [pc EXCEPT ![h] = "idle"]
    /\ loc' = [loc EXCEPT ![h] = IdleLoc]

Goto(h, label) == pc' = [pc EXCEPT ![h] = label]

\* is_valid: "if token not in self.tokens" and "info = self.tokens[token]"
VLookup(h, token) ==
    /\ pc[h] = "idle"
    /\ calls < MaxCalls
    /\ calls' = calls + 1
    /\ IF token \notin DOMAIN tokens
       THEN Return(h)
       ELSE /\ Goto(h, "v_active")
            /\ loc' = [loc EXCEPT ![h].token = token]
    /\ UNCHANGED <<tokens, disk, fsize, host_vars, now, resp, request, seen, hits>>

\* is_valid: "if not info.get('active', True)"
VActive(h) ==
    /\ pc[h] = "v_active"
    /\ IF ~tokens[loc[h].token].active
       THEN Return(h)
       ELSE Goto(h, "v_expiry") /\ UNCHANGED loc
    /\ UNCHANGED <<tokens, disk, fsize, host_vars, now, resp, request, seen, hits, calls>>

\* is_valid: the expiry check
VExpiry(h) ==
    /\ pc[h] = "v_expiry"
    /\ IF Expired(tokens[loc[h].token], now)
       THEN Return(h)
       ELSE Goto(h, "v_read") /\ UNCHANGED loc
    /\ UNCHANGED <<tokens, disk, fsize, host_vars, now, resp, request, seen, hits, calls>>

\* is_valid: the right-hand side info.get("used_count", 0) + 1
VRead(h) ==
    /\ pc[h] = "v_read"
    /\ loc' = [loc EXCEPT ![h].read = tokens[loc[h].token].used_count]
    /\ Goto(h, "v_write")
    /\ UNCHANGED <<tokens, disk, fsize, host_vars, now, resp, request, seen, hits, calls>>

\* is_valid: the store into info["used_count"]
VWrite(h) ==
    /\ pc[h] = "v_write"
    /\ tokens' = [tokens EXCEPT ![loc[h].token].used_count = loc[h].read + 1]
    /\ Goto(h, "v_now")
    /\ UNCHANGED <<disk, fsize, host_vars, now, resp, request, seen, loc, hits, calls>>

\* is_valid: the right-hand side datetime.now() of the last_used assignment
VNow(h) ==
    /\ pc[h] = "v_now"
    /\ loc' = [loc EXCEPT ![h].stamp = now]
    /\ Goto(h, "v_stamp")
    /\ UNCHANGED <<tokens, disk, fsize, host_vars, now, resp, request, seen, hits, calls>>

\* is_valid: the store into info["last_used"] of the time read before
VStamp(h) ==
    /\ pc[h] = "v_stamp"
    /\ tokens' = [tokens EXCEPT ![loc[h].token].last_used = Dt(loc[h].stamp)]
    /\ Goto(h, "v_save")
    /\ UNCHANGED <<disk, fsize, host_vars, now, resp, request, seen, loc, hits, calls>>

\* is_valid: self._save_tokens() is entered and builds its snapshot "data"
VSave(h) ==
    /\ pc[h] = "v_save"
    /\ loc' = [loc EXCEPT ![h].snap = Snapshot(tokens), ![h].ret = "v_return"]
    /\ Goto(h, "f_open")
    /\ UNCHANGED <<tokens, disk, fsize, host_vars, now, resp, request, seen, hits, calls>>

\* _save_tokens: open(self.tokens_file, "w") empties the file; on a
\* read-only file system it raises and the except clause is entered.
SaveOpen(h) ==
    /\ pc[h] = "f_open"
    /\ IF writable
       THEN /\ disk' = TruncatedFile
            /\ fsize' = 0
            /\ Goto(h, "f_close")
            /\ UNCHANGED loc
       ELSE /\ UNCHANGED <<disk, fsize>>
            /\ IF loc[h].ret = "idle" THEN Return(h)
               ELSE /\ Goto(h, loc[h].ret)
                    /\ loc' = [loc EXCEPT ![h].snap = EmptyStore]
    /\ UNCHANGED <<tokens, host_vars, now, resp, request, seen, hits, calls>>

\* _save_tokens: json.dump fills the buffer of the file object and the end
\* of the "with" block writes it out; _save_tokens returns (and with it
\* sync_tokens, whose response is all that is left).
SaveClose(h) ==
    /\ pc[h] = "f_close"
    /\ \E w \in {WriteOver(disk, fsize, loc[h].snap)} :
           disk' = w.content /\ fsize' = w.size
    /\ IF loc[h].ret = "idle" THEN Return(h)
       ELSE /\ Goto(h, loc[h].ret)
            /\ loc' = [loc EXCEPT ![h].snap = EmptyStore]
    /\ UNCHANGED <<tokens, host_vars, now, resp, request, seen, hits, calls>>

\* is_valid: "return True, None"
VReturn(h) ==
    /\ pc[h] = "v_return"
    /\ hits' = [hits EXCEPT ![loc[h].token] = @ + 1]
    /\ Return(h)
    /\ UNCHANGED <<tokens, disk, fsize, host_vars, now, resp, request, seen, calls>>

\* sync_tokens: the request is read
SBegin(h, batch) ==
    /\ pc[h] = "idle"
    /\ calls < MaxCalls
    /\ calls' = calls + 1
    /\ loc' = [loc EXCEPT ![h].batch = batch, ![h].i = 0]
    /\ Goto(h, "s_loop")
    /\ UNCHANGED <<tokens, disk, fsize, host_vars, now, resp, request, seen, hits>>

\* sync_tokens: one iteration of the loop up to its first store.  A
\* descriptor without token is skipped and one for an unknown token inserts
\* (or fails to parse); for a known token "active" is stored when the
\* descriptor has it, and the description is left to the next statement.
SEntry(h) ==
    /\ pc[h] = "s_loop"
    /\ loc[h].i < Len(loc[h].batch)
    /\ LET d == loc[h].batch[loc[h].i + 1]
       IN  IF d.token = "" \/ d.token \notin DOMAIN tokens
           THEN /\ tokens' = SyncEntry(tokens, d, now)
                /\ loc' = [loc EXCEPT ![h].i = @ + 1]
                /\ UNCHANGED pc
           ELSE /\ tokens' = IF d.has_active
                             THEN [tokens EXCEPT ![d.token].active = d.active]
                             ELSE tokens
                /\ Goto(h, "s_description")
                /\ UNCHANGED loc
    /\ UNCHANGED <<disk, fsize, host_vars, now, resp, request, seen, hits, calls>>

\* sync_tokens: 'if "description" in token_info' and its store
SDescription(h) ==
    /\ pc[h] = "s_description"
    /\ LET d == loc[h].batch[loc[h].i + 1]
       IN  tokens' = IF d.has_description
                     THEN [tokens EXCEPT
                              ![d.token].description = d.description]
                     ELSE tokens
    /\ loc' = [loc EXCEPT ![h].i = @ + 1]
    /\ Goto(h, "s_loop")
    /\ UNCHANGED <<disk, fsize, host_vars, now, resp, request, seen, hits, calls>>

\* sync_tokens: token_manager._save_tokens() is entered and builds its
\* snapshot "data"
SSave(h) ==
    /\ pc[h] = "s_loop"
    /\ loc[h].i = Len(loc[h].batch)
    /\ loc' = [loc EXCEPT ![h].snap = Snapshot(tokens), ![h].ret = "idle"]
    /\ Goto(h, "f_open")
    /\ UNCHANGED <<tokens, disk, fsize, host_vars, now, resp, request, seen, hits, calls>>

\* root() and test(): token_manager.list_tokens() starts to iterate over
\* the store; an empty store is listed at once.
LList(h) ==
    /\ pc[h] = "idle"
    /\ calls < MaxCalls
    /\ calls' = calls + 1
    /\ IF DOMAIN tokens = {}
       THEN /\ seen' = ListTokensCall(tokens)
            /\ UNCHANGED <<pc, loc>>
       ELSE /\ loc' = [loc EXCEPT ![h].keys = Keys(tokens)]
            /\ Goto(h, "l_row")
            /\ UNCHANGED seen
    /\ UNCHANGED <<tokens, disk, fsize, host_vars, now, resp, request, hits>>

\* list_tokens: for the next record, the reads of expires_at, created_at
\* and active (a record's created_at and expires_at never change)
LRow(h) ==
    /\ pc[h] = "l_row"
    /\ LET info == tokens[Head(loc[h].keys)]
       IN  loc' = [loc EXCEPT ![h].row =
                      [created_at |-> info.created_at,
                       expires_at |-> info.expires_at,
                       active |-> info.active,
                       description |-> "", used_count |-> 0,
                       last_used |-> None]]
    /\ Goto(h, "l_description")
    /\ UNCHANGED <<tokens, disk, fsize, host_vars, now, resp, request, seen, hits, calls>>

\* list_tokens: info.get("description", "")
LDescription(h) ==
    /\ pc[h] = "l_description"
    /\ loc' = [loc EXCEPT ![h].row.description =
                   tokens[Head(loc[h].keys)].description]
    /\ Goto(h, "l_used")
    /\ UNCHANGED <<tokens, disk, fsize, host_vars, now, resp, request, seen, hits, calls>>

\* list_tokens: info.get("used_count", 0)
LUsed(h) ==
    /\ pc[h] = "l_used"
    /\ loc' = [loc EXCEPT ![h].row.used_count =
                   tokens[Head(loc[h].keys)].used_count]
    /\ Goto(h, "l_last")
    /\ UNCHANGED <<tokens, disk, fsize, host_vars, now, resp, request, seen, hits, calls>>

\* list_tokens: info.get("last_used"), the conversions and the append;
\* after the last record the list is returned.
LLast(h) ==
    /\ pc[h] = "l_last"
    /\ LET t == Head(loc[h].keys)
           row == [loc[h].row EXCEPT !.last_used = tokens[t].last_used]
           rows == Put(loc[h].rows, t, ListRecord(row))
       IN  IF Len(loc[h].keys) = 1
           THEN seen' = rows /\ Return(h)
           ELSE /\ loc' = [loc EXCEPT ![h].keys = Tail(@), ![h].rows = rows,
                                      ![h].row = NoRow]
                /\ Goto(h, "l_row")
                /\ UNCHANGED seen
    /\ UNCHANGED <<tokens, disk, fsize, host_vars, now, resp, request, hits, calls>>

TickConc ==
    /\ now < MaxTicks * HOUR
    /\ now' = now + HOUR
    /\ UNCHANGED <<tokens, disk, host_vars, resp, request, thread_vars>>

NextConc ==
    \/ \E h \in Handlers, t \in Tokens : VLookup(h, t)
    \/ \E h \in Handlers : VActive(h)
    \/ \E h \in Handlers : VExpiry(h)
    \/ \E h \in Handlers : VRead(h)
    \/ \E h \in Handlers : VWrite(h)
    \/ \E h \in Handlers : VNow(h)
    \/ \E h \in Handlers : VStamp(h)
    \/ \E h \in Handlers : VSave(h)
    \/ \E h \in Handlers : VReturn(h)
    \/ \E h \in Handlers : SaveOpen(h)
    \/ \E h \in Handlers : SaveClose(h)
    \/ \E h \in Handlers, b \in Batches : SBegin(h, b)
    \/ \E h \in Handlers : SEntry(h)
    \/ \E h \in Handlers : SDescription(h)
    \/ \E h \in Handlers : SSave(h)
    \/ \E h \in Handlers : LList(h)
    \/ \E h \in Handlers : LRow(h)
    \/ \E h \in Handlers : LDescription(h)
    \/ \E h \in Handlers : LUsed(h)
    \/ \E h \in Handlers : LLast(h)
    \/ TickConc

SpecConc == InitConc /\ [][NextConc]_vars

AllIdle == \A h \in Handlers : pc[h] = "idle"

\* ================================================================= claims
\* The instant a timestamp slot denotes, whatever its representation.
Instant(x) == IF x.k \in {"dt", "str"} THEN [some |-> TRUE, at |-> x.v]
              ELSE [some |-> FALSE, at |-> 0]

\* ---------------------------------------------------------------------
\* C1: when several handlers validate the same existing, active, unexpired
\* token concurrently, once they have all returned the token's used_count
\* is its initial used_count plus the number of calls that returned
\* valid=true.
C1_NoLostIncrement ==
    AllIdle =>
        \A t \in DOMAIN ConcStore :
            t \in DOMAIN tokens
            /\ tokens[t].used_count = ConcStore[t].used_count + hits[t]

\* ---------------------------------------------------------------------
\* What the specification calls a valid token.
ValidBySpec(store, t, now_) ==
    /\ t \in DOMAIN store
    /\ store[t].active = TRUE
    /\ (store[t].expires_at = None \/ store[t].expires_at.v >= now_)

\* C2: validate(t) returns valid=true exactly when t is in the store, its
\* active flag is true and its expires_at is absent or not earlier than the
\* current time.
C2_ValidIff ==
    \A t \in Tokens :
        IsValidCall(tokens, disk, writable, t, now).valid
            <=> ValidBySpec(tokens, t, now)

\* A validation succeeded at the very instant of the token's expiry while
\* the store holds a deactivated token.
C2_Witness ==
    /\ resp.op = "validate" /\ resp.valid
    /\ resp.token \in DOMAIN tokens
    /\ tokens[resp.token].expires_at = Dt(now)
    /\ tokens[resp.token].last_used = Dt(now)
    /\ \E u \in DOMAIN tokens : ~tokens[u].active

\* ---------------------------------------------------------------------
\* C3: a failed validate(t) reports "not found" for an unknown token,
\* otherwise "deactivated" when active is false, otherwise "expired", and
\* changes neither the store nor the snapshot.
C3_FailedValidate ==
    \A t \in Tokens :
        LET r == IsValidCall(tokens, disk, writable, t, now) IN
        ~r.valid =>
            /\ r.reason \in {"not found", "deactivated", "expired"}
            /\ r.reason = "not found" <=> t \notin DOMAIN tokens
            /\ r.reason = "deactivated" <=>
                   (t \in DOMAIN tokens /\ ~tokens[t].active)
            /\ r.reason = "expired" =>
                   (tokens[t].expires_at # None
                    /\ now > tokens[t].expires_at.v)
            /\ r.tokens = tokens
            /\ r.disk = disk

\* A validation of a used token that is both deactivated and past its expiry
\* was refused as "deactivated".
C3_Witness ==
    /\ resp.op = "validate" /\ ~resp.valid /\ resp.reason = "deactivated"
    /\ resp.token \in DOMAIN tokens
    /\ tokens[resp.token].expires_at # None
    /\ now > tokens[resp.token].expires_at.v
    /\ tokens[resp.token].used_count > 0

\* ---------------------------------------------------------------------
\* C4: a validate(t) that returns valid=true adds exactly 1 to t's
\* used_count, sets t's last_used to the current time, changes no other
\* field of t and no other record, and writes a snapshot.
C4_SuccessfulValidate ==
    \A t \in Tokens :
        LET r == IsValidCall(tokens, disk, writable, t, now) IN
        r.valid =>
            /\ DOMAIN r.tokens = DOMAIN tokens
            /\ r.tokens[t].used_count = tokens[t].used_count + 1
            /\ r.tokens[t].last_used = Dt(now)
            /\ r.tokens[t].created_at = tokens[t].created_at
            /\ r.tokens[t].expires_at = tokens[t].expires_at
            /\ r.tokens[t].active = tokens[t].active
            /\ r.tokens[t].description = tokens[t].description
            /\ \A u \in DOMAIN tokens \ {t} : r.tokens[u] = tokens[u]
            /\ r.disk.kind # "missing"
            /\ r.disk = SaveTokens(r.tokens, disk, writable)

\* The second successful validation of a token created with used_count 0,
\* with another record in the store.
C4_Witness ==
    /\ resp.op = "validate" /\ resp.valid
    /\ resp.token \in DOMAIN tokens
    /\ tokens[resp.token].used_count = 2
    /\ tokens[resp.token].description = ""
    /\ tokens[resp.token].last_used = Dt(now)
    /\ DOMAIN tokens # {resp.token}

\* ---------------------------------------------------------------------
\* C5: no step of any handler, under any interleaving, lowers the
\* used_count of a token that is in the store before and after the step.
C5_UsedCountMonotone ==
    [][\A t \in DOMAIN tokens \cap DOMAIN tokens' :
         tokens'[t].used_count >= tokens[t].used_count]_vars

\* ---------------------------------------------------------------------
\* C6: a sync descriptor for a token already in the store changes only
\* that record's active (when the descriptor has the field) and description
\* (likewise); used_count, last_used, created_at and expires_at of the
\* record stay whatever the descriptor carries, and all other records stay
\* as they are.
C6_SyncUpdatesOnlyActiveAndDescription ==
    \A d \in Descriptors :
        d.token \in DOMAIN tokens =>
            LET post == SyncEntry(tokens, d, now)
                old == tokens[d.token]
                new == post[d.token]
            IN  /\ DOMAIN post = DOMAIN tokens
                /\ new.used_count = old.used_count
                /\ new.last_used = old.last_used
                /\ new.created_at = old.created_at
                /\ new.expires_at = old.expires_at
                /\ new.active = IF d.has_active THEN d.active ELSE old.active
                /\ new.description = IF d.has_description THEN d.description
                                     ELSE old.description
                /\ \A u \in DOMAIN tokens \ {d.token} : post[u] = tokens[u]

\* A sync has updated the description of a record that was created with
\* another expiry than the descriptor carries and that has been validated:
\* the record kept its expiry, its used_count and its last_used.
C6_Witness ==
    /\ resp.op = "sync"
    /\ "t1" \in DOMAIN tokens
    /\ tokens["t1"].description = "d"
    /\ tokens["t1"].expires_at # Dt(0)
    /\ tokens["t1"].used_count = 2
    /\ tokens["t1"].last_used # None
    /\ "t2" \in DOMAIN tokens

\* ---------------------------------------------------------------------
\* A descriptor the specification calls malformed.
Malformed(d) ==
    \/ d.token = ""
    \/ d.expires_at.k = "bad"
    \/ d.created_at.k = "bad"

WellFormedOnly(batch) == SelectSeq(batch, LAMBDA d : ~Malformed(d))

\* C7: a sync batch has the effect of its well-formed descriptors alone, in
\* their order (a malformed descriptor adds or changes no record, wherever
\* it stands), and the resulting store is on disk at the end of the batch.
C7_MalformedSkipped ==
    [][\A b \in Batches :
         SyncTokens(b) =>
            /\ tokens' = SyncLoop(tokens, WellFormedOnly(b),
                                  Len(WellFormedOnly(b)), now)
            /\ disk'.kind = "json"
            /\ DOMAIN disk'.data = DOMAIN tokens'
            /\ \A t \in DOMAIN tokens' :
                   /\ disk'.data[t].active = tokens'[t].active
                   /\ disk'.data[t].used_count = tokens'[t].used_count]_vars

\* ---------------------------------------------------------------------
\* The descriptors of the batch that sync_tokens inserted or applied as an
\* update, that is, all but those it skipped.
Skipped(store, d) ==
    \/ d.token = ""
    \/ d.token \notin DOMAIN store /\ Malformed(d)

ProcessedCount(store, batch, now_) ==
    Cardinality({ i \in 1..Len(batch) :
                    ~Skipped(SyncLoop(store, batch, i - 1, now_), batch[i]) })

\* C8: the "synced" value of the response is the number of descriptors that
\* were inserted or applied as an update; skipped descriptors do not count.
C8_SyncedCountsProcessed ==
    [][\A b \in Batches :
         SyncTokens(b) =>
            resp'.synced = ProcessedCount(tokens, b, now)]_vars

\* ---------------------------------------------------------------------
\* The same tokens with the same value of every field, timestamps compared
\* by the instant they denote.
SameRecord(a, b) ==
    /\ Instant(a.created_at) = Instant(b.created_at)
    /\ Instant(a.expires_at) = Instant(b.expires_at)
    /\ Instant(a.last_used) = Instant(b.last_used)
    /\ a.active = b.active
    /\ a.description = b.description
    /\ a.used_count = b.used_count

SameStore(a, b) ==
    /\ DOMAIN a = DOMAIN b
    /\ \A t \in DOMAIN a : SameRecord(a[t], b[t])

\* C9: with a writable filesystem, a process started after any sequence of
\* completed operations loads the store the previous process held.
C9_SurvivesRestart ==
    [][(writable /\ Restart) => SameStore(tokens', tokens)]_vars

\* ---------------------------------------------------------------------
\* C10: in every reachable state, saving the store and loading what was
\* written yields the same tokens with the same value of every field.
C10_RoundTrip ==
    SameStore(LoadTokens(SaveTokens(tokens, disk, TRUE)), tokens)

\* ---------------------------------------------------------------------
\* What the specification calls a usable snapshot: present and parsing as a
\* mapping of token to record.
ValidSnapshot(content) == content.kind = "json"

\* The store the load contract prescribes.
LoadBySpec(envContent, fileContent) ==
    IF ValidSnapshot(envContent) THEN envContent.data
    ELSE IF ValidSnapshot(fileContent) THEN fileContent.data
    ELSE EmptyStore

\* C11: for every environment content and file content the startup load
\* finishes with a store and never with a fatal error, and the store is the
\* environment snapshot when that is valid, else the file's when that is
\* valid, else empty.
C11_LoadTotalWithPrecedence ==
    /\ up
    /\ StartupLoad(env, disk).ok
    /\ resp.op \in {"none", "restart"} =>
           SameStore(tokens, LoadBySpec(env, disk))

\* ---------------------------------------------------------------------
\* C12: a failing snapshot write never fails the operation that triggered
\* it: create, validate, activate, deactivate, delete and sync return the
\* same result and leave the same in-memory store on a read-only file
\* system as on a writable one, nothing is raised, and the operations that
\* follow read and mutate that in-memory store.
C12_WriteFailureNotFatal ==
    /\ \A t \in Tokens :
           LET v0 == IsValidCall(tokens, disk, FALSE, t, now)
               v1 == IsValidCall(tokens, disk, TRUE, t, now)
               x0 == DeleteCall(tokens, disk, FALSE, t)
               x1 == DeleteCall(tokens, disk, TRUE, t)
           IN  /\ ~v0.raised /\ v0.valid = v1.valid /\ v0.reason = v1.reason
               /\ v0.tokens = v1.tokens /\ v0.disk = disk
               /\ x0.ok = x1.ok /\ x0.tokens = x1.tokens /\ x0.disk = disk
               /\ x0.ok = (t \in DOMAIN tokens)
               /\ \A flag \in BOOLEAN :
                      LET a0 == SetActiveCall(tokens, disk, FALSE, t, flag)
                          a1 == SetActiveCall(tokens, disk, TRUE, t, flag)
                      IN  /\ a0.ok = a1.ok /\ a0.tokens = a1.tokens
                          /\ a0.disk = disk
                          /\ a0.ok = (t \in DOMAIN tokens)
    /\ \A c \in CreateCalls, g \in GeneratedTokens :
           LET c0 == CreateCall(tokens, disk, FALSE, c[1], c[2], c[3], "", g, now)
               c1 == CreateCall(tokens, disk, TRUE, c[1], c[2], c[3], "", g, now)
           IN  /\ c0.ok = c1.ok /\ c0.tokens = c1.tokens /\ c0.disk = disk
               /\ c0.ok = (c0.token \notin DOMAIN tokens)
    /\ \A d \in Descriptors :
           LET s0 == SyncCall(tokens, disk, FALSE, <<d>>, now)
               s1 == SyncCall(tokens, disk, TRUE, <<d>>, now)
           IN  s0.ok /\ s1.ok /\ s0.tokens = s1.tokens /\ s0.disk = disk
    /\ (~writable /\ resp.op = "check" /\ resp.ok) =>
           /\ tokens[resp.token].used_count > 0
           /\ tokens[resp.token].last_used # None
    /\ (~writable /\ resp.op = "deactivate" /\ resp.ok) =>
           IsValidCall(tokens, disk, writable, resp.token, now).reason
               = "deactivated"
    /\ (~writable /\ resp.op = "delete" /\ resp.ok) =>
           IsValidCall(tokens, disk, writable, resp.token, now).reason
               = "not found"

\* On a read-only file system with no tokens.json, a token of the
\* environment snapshot has been validated twice: the second validation saw
\* the count the first one left in memory.
C12_Witness ==
    /\ ~writable /\ up
    /\ disk = MissingFile
    /\ resp.op = "check" /\ resp.ok
    /\ tokens[resp.token].used_count = 2

\* ---------------------------------------------------------------------
\* C13: what a list_tokens() running beside a validation returns for a token
\* is the record either before or after that validation: a used_count above
\* the initial one never comes with the initial last_used.
C13_NoTornRead ==
    \A t \in DOMAIN seen \cap DOMAIN ConcStore :
        seen[t].used_count > ConcStore[t].used_count =>
            seen[t].last_used # Shown(ConcStore[t].last_used)

\* ---------------------------------------------------------------------
\* C14: create with an explicit token string that is already in the store
\* (as given, or once stripped) fails with DuplicateToken, leaves every
\* record as it is, adds none and writes no snapshot.
C14_DuplicateCreateRefused ==
    \A c \in CreateCalls, g \in GeneratedTokens :
        (c[1] # "" /\ Strip(c[1]) \in DOMAIN tokens) =>
            \A r \in {CreateCall(tokens, disk, writable, c[1], c[2], c[3],
                                  "", g, now)} :
                /\ ~r.ok
                /\ r.reason = "DuplicateToken"
                /\ r.token = Strip(c[1])
                /\ DOMAIN r.tokens = DOMAIN tokens
                /\ \A t \in DOMAIN tokens : r.tokens[t] = tokens[t]
                /\ r.disk = disk

\* A create was refused as a duplicate of a token that had been validated
\* and carries an expiry: the record shows its history, not a fresh record.
C14_Witness ==
    /\ resp.op = "create" /\ ~resp.ok /\ resp.reason = "DuplicateToken"
    /\ resp.token \in DOMAIN tokens
    /\ tokens[resp.token].used_count > 0
    /\ tokens[resp.token].last_used # None
    /\ tokens[resp.token].expires_at # None

\* ---------------------------------------------------------------------
\* C15: a successful create stores active=true, used_count=0, no last_used,
\* created_at=now, and an expires_at that is absent exactly when neither
\* days nor hours were supplied, created_at + d days when d days were
\* supplied, and created_at + h hours when only h hours were supplied.
C15_CreateExpiryFromTtl ==
    \A c \in CreateCalls, g \in GeneratedTokens :
        LET r == CreateCall(tokens, disk, writable, c[1], c[2], c[3], "",
                            g, now)
            rec == r.tokens[r.token]
        IN  r.ok =>
                /\ rec.active = TRUE
                /\ rec.used_count = 0
                /\ rec.last_used = None
                /\ rec.created_at = Dt(now)
                /\ rec.expires_at = None <=> (c[2] = NoInt /\ c[3] = NoInt)
                /\ c[2] # NoInt => rec.expires_at = Dt(now + c[2] * DAY)
                /\ (c[2] = NoInt /\ c[3] # NoInt) =>
                       rec.expires_at = Dt(now + c[3] * HOUR)

\* ---------------------------------------------------------------------
\* The token is not past its expiry, in the specification's words.
NotExpiredBySpec(info, now_) ==
    info.expires_at = None \/ info.expires_at.v >= now_

\* C16: after deactivate(t), validate(t) returns valid=false with reason
\* "deactivated", whatever the expiry, and changes nothing; every call
\* other than activate and sync leaves t deactivated; after activate(t) a
\* token that is not expired validates again; deactivate and activate
\* change no field but active and no other record.
C16_DeactivateActivate ==
    /\ \A t \in DOMAIN tokens :
           \A d \in {SetActiveCall(tokens, disk, writable, t, FALSE)} :
           \A v \in {IsValidCall(d.tokens, d.disk, writable, t, now)} :
           \A a \in {SetActiveCall(d.tokens, d.disk, writable, t, TRUE)} :
           \A w \in {IsValidCall(a.tokens, a.disk, writable, t, now)} :
               /\ d.ok /\ a.ok
               /\ ~v.valid /\ v.reason = "deactivated"
               /\ v.tokens = d.tokens
               /\ NotExpiredBySpec(tokens[t], now) =>
                      (w.valid /\ w.tokens[t].used_count
                                     = tokens[t].used_count + 1)
               /\ \A r \in {d, a} :
                      /\ DOMAIN r.tokens = DOMAIN tokens
                      /\ r.tokens[t].created_at = tokens[t].created_at
                      /\ r.tokens[t].expires_at = tokens[t].expires_at
                      /\ r.tokens[t].description = tokens[t].description
                      /\ r.tokens[t].used_count = tokens[t].used_count
                      /\ r.tokens[t].last_used = tokens[t].last_used
                      /\ \A u \in DOMAIN tokens \ {t} :
                             r.tokens[u] = tokens[u]
    /\ \A t \in DOMAIN tokens :
           ~tokens[t].active =>
               /\ \A u \in Tokens :
                      \A v \in {IsValidCall(tokens, disk, writable, u, now)},
                         x \in {DeleteCall(tokens, disk, writable, u)},
                         f \in {SetActiveCall(tokens, disk, writable, u,
                                              FALSE)},
                         n \in {SetActiveCall(tokens, disk, writable, u,
                                              TRUE)} :
                          /\ ~v.tokens[t].active
                          /\ v.tokens[t].used_count = tokens[t].used_count
                          /\ ~f.tokens[t].active
                          /\ u # t => (~x.tokens[t].active
                                       /\ ~n.tokens[t].active)
               /\ \A c \in CreateCalls, g \in GeneratedTokens :
                      ~CreateCall(tokens, disk, writable, c[1], c[2], c[3],
                                  "", g, now).tokens[t].active
    /\ (resp.op = "validate" /\ resp.token \in DOMAIN tokens
                             /\ ~tokens[resp.token].active) =>
           (~resp.valid /\ resp.reason = "deactivated")

\* A validation of a deactivated token was refused as "deactivated" although
\* the token's expiry lies in the future and the token had been validated
\* before.
C16_Witness ==
    /\ resp.op = "validate" /\ ~resp.valid /\ resp.reason = "deactivated"
    /\ resp.token \in DOMAIN tokens
    /\ tokens[resp.token].expires_at # None
    /\ tokens[resp.token].expires_at.v > now
    /\ tokens[resp.token].used_count > 0

\* ---------------------------------------------------------------------
\* The shapes of descriptor the insert is checked on: with and without
\* timestamps, with and without "active", "description" and "used_count".
DescriptorForms ==
    { Desc(t, ts[1], ts[2], act[1], act[2], rest[1], "d", rest[2]) :
        t \in Tokens,
        ts \in {<<None, None>>, <<Iso(DAY), Iso(0)>>},
        act \in {<<FALSE, FALSE>>, <<TRUE, FALSE>>, <<TRUE, TRUE>>},
        rest \in {<<FALSE, NoInt>>, <<TRUE, 1>>} }

\* C17: a sync descriptor for a token not in the store inserts exactly one
\* record: active is the descriptor's value or true, used_count its value
\* or 0, description its value or empty, expires_at its timestamp or absent,
\* created_at its timestamp or the current time, last_used absent; a later
\* descriptor for the same token in the batch updates that record.
C17_SyncInsert ==
    \A d \in DescriptorForms :
        d.token \notin DOMAIN tokens =>
            \A post \in {SyncEntry(tokens, d, now)} :
            \A r \in {post[d.token]} :
                /\ DOMAIN post = DOMAIN tokens \cup {d.token}
                /\ \A u \in DOMAIN tokens : post[u] = tokens[u]
                /\ r.active = (IF d.has_active THEN d.active ELSE TRUE)
                /\ r.used_count
                       = (IF d.used_count = NoInt THEN 0 ELSE d.used_count)
                /\ r.description
                       = (IF d.has_description THEN d.description ELSE "")
                /\ Instant(r.expires_at) = Instant(d.expires_at)
                /\ Instant(r.created_at)
                       = (IF d.created_at = None THEN Instant(Dt(now))
                          ELSE Instant(d.created_at))
                /\ r.last_used = None
                /\ \A e \in Descriptors :
                       e.token = d.token =>
                           \A both \in {SyncEntry(post, e, now)} :
                           \A q \in {both[d.token]} :
                               /\ DOMAIN both = DOMAIN post
                               /\ q.created_at = r.created_at
                               /\ q.expires_at = r.expires_at
                               /\ q.used_count = r.used_count
                               /\ q.last_used = None
                               /\ q.active = (IF e.has_active THEN e.active
                                              ELSE r.active)
                               /\ q.description
                                      = (IF e.has_description
                                         THEN e.description
                                         ELSE r.description)

\* An hour after the start a sync has inserted t1 from a descriptor that
\* carries timestamps, a description and a used_count, and a later
\* descriptor has switched the record off: the record has the descriptor's
\* creation time, not the clock's, and was never validated.
C17_Witness ==
    /\ resp.op = "sync"
    /\ now = HOUR
    /\ "t1" \in DOMAIN tokens
    /\ tokens["t1"].created_at = Dt(0)
    /\ tokens["t1"].expires_at = Dt(0)
    /\ tokens["t1"].description = "d"
    /\ tokens["t1"].used_count = 1
    /\ tokens["t1"].last_used = None
    /\ ~tokens["t1"].active

\* ---------------------------------------------------------------------
\* C19: activate, deactivate and delete of a token that is not in the
\* store return false, change no record and write no snapshot; delete of a
\* known token removes that record and leaves the others; no call other
\* than delete removes a token.
C19_UnknownAndDelete ==
    /\ \A t \in Tokens \ DOMAIN tokens :
           LET x == DeleteCall(tokens, disk, writable, t)
               f == SetActiveCall(tokens, disk, writable, t, FALSE)
               n == SetActiveCall(tokens, disk, writable, t, TRUE)
           IN  \A r \in {x, f, n} :
                   ~r.ok /\ r.tokens = tokens /\ r.disk = disk
    /\ \A t \in DOMAIN tokens :
           \A x \in {DeleteCall(tokens, disk, writable, t)} :
               /\ x.ok
               /\ DOMAIN x.tokens = DOMAIN tokens \ {t}
               /\ \A u \in DOMAIN x.tokens : x.tokens[u] = tokens[u]
    /\ \A t \in Tokens, flag \in BOOLEAN :
           /\ DOMAIN tokens \subseteq
                  DOMAIN IsValidCall(tokens, disk, writable, t, now).tokens
           /\ DOMAIN tokens \subseteq
                  DOMAIN SetActiveCall(tokens, disk, writable, t, flag).tokens
    /\ \A c \in CreateCalls, g \in GeneratedTokens :
           DOMAIN tokens \subseteq
               DOMAIN CreateCall(tokens, disk, writable, c[1], c[2], c[3],
                                 "", g, now).tokens
    /\ \A d \in Descriptors :
           DOMAIN tokens \subseteq DOMAIN SyncEntry(tokens, d, now)
    /\ (resp.op \in {"activate", "deactivate", "delete"} /\ ~resp.ok) =>
           resp.token \notin DOMAIN tokens
    /\ (resp.op = "delete" /\ resp.ok) => resp.token \notin DOMAIN tokens

\* A delete has removed one token and left the other, which had been
\* validated, in the store.
C19_Witness ==
    /\ resp.op = "delete" /\ resp.ok
    /\ resp.token \notin DOMAIN tokens
    /\ \E u \in DOMAIN tokens : tokens[u].used_count > 0

\* ---------------------------------------------------------------------
\* The first non-empty field named "token" in any spelling.
AnyCase(f) ==
    IF f.token # "" THEN f.token ELSE IF f.Token # "" THEN f.Token ELSE f.TOKEN

\* The candidate the specification prescribes: JSON body, then form, then
\* query string.
FirstCandidate(req) ==
    IF AnyCase(req.body) # "" THEN AnyCase(req.body)
    ELSE IF AnyCase(req.form) # "" THEN AnyCase(req.form)
    ELSE AnyCase(req.args)

\* C18: the token check_token works with is the first candidate among the
\* JSON body, the form fields and the query parameters, the field name
\* matched case-insensitively; none only when no source carries one.
C18_FirstCandidate ==
    resp.op = "check" => resp.token = FirstCandidate(request)

\* ---------------------------------------------------------------------
\* The value listed for a unit, 0 when the unit is not listed.
Listed(parts, unit) ==
    IF \E i \in DOMAIN parts : parts[i].unit = unit
    THEN parts[CHOOSE i \in DOMAIN parts : parts[i].unit = unit].n
    ELSE 0

UnitRank(unit) == CASE unit = "days" -> 1 [] unit = "hours" -> 2
                    [] unit = "minutes" -> 3

\* A breakdown of rem seconds into whole days, hours and minutes that
\* omits zero units and omits the minutes once a day remains.
IsBreakdown(parts, rem) ==
    LET d == Listed(parts, "days")
        h == Listed(parts, "hours")
        m == Listed(parts, "minutes")
        total == d * DAY + h * HOUR + m * MINUTE
    IN  /\ parts # <<>>
        /\ \A i \in DOMAIN parts : parts[i].n > 0
        /\ \A i, j \in DOMAIN parts :
               i < j => UnitRank(parts[i].unit) < UnitRank(parts[j].unit)
        /\ h < 24 /\ m < 60
        /\ m > 0 => d = 0
        /\ total <= rem
        /\ rem - total < (IF d > 0 THEN HOUR ELSE MINUTE)

\* What C20 says of one record, given the forms the result may take when
\* the expiry is not passed.
TimeRemainingAsClaimed(t, r, running) ==
    LET e == tokens[t].expires_at IN
    /\ r.form = "unlimited" <=> e = None
    /\ r.form = "expired" <=> (e # None /\ now > e.v)
    /\ r.form = "expired" <=>
           IsValidCall([tokens EXCEPT ![t].active = TRUE], disk, writable,
                       t, now).reason = "expired"
    /\ (e # None /\ now <= e.v) => r.form \in running
    /\ r.form = "breakdown" => IsBreakdown(r.parts, e.v - now)
    /\ r.form = "less than a minute" => e.v - now < MINUTE

\* C20 as stated: the result is "unlimited", "expired" or a breakdown, for
\* every remaining duration.
C20_ThreeForms ==
    \A t \in DOMAIN tokens :
        \A r \in {GetTimeRemaining(tokens, t, now)} :
            TimeRemainingAsClaimed(t, r, {"breakdown"})

\* C20 as amended: the result is "unlimited", "expired", a breakdown, or,
\* when less than a whole minute remains (zero included), "less than a
\* minute"; it says "expired" exactly when validate does.
C20_FourForms ==
    \A t \in DOMAIN tokens :
        \A r \in {GetTimeRemaining(tokens, t, now)} :
            /\ TimeRemainingAsClaimed(t, r, {"breakdown",
                                             "less than a minute"})
            /\ r.form = "less than a minute" <=>
                   (tokens[t].expires_at # None
                    /\ now <= tokens[t].expires_at.v
                    /\ tokens[t].expires_at.v - now < MINUTE)

\* The time remaining was asked at the very instant of the token's expiry,
\* with another token in the store that has more than a day left.
C20_Witness ==
    /\ resp.op = "time_remaining" /\ resp.reason = "less than a minute"
    /\ resp.token \in DOMAIN tokens
    /\ tokens[resp.token].expires_at # None
    /\ tokens[resp.token].expires_at.v = now
    /\ \E u \in DOMAIN tokens :
           /\ tokens[u].expires_at # None
           /\ tokens[u].expires_at.v - now > DAY

\* ---------------------------------------------------------------------
\* C21: each access endpoint answers ok=true exactly when validate returned
\* valid=true for the extracted token; a request with no extractable token
\* is answered with the rejection 'Missing token' without validate being
\* called or the store changing; a request whose token fails validation is
\* answered with the rejection carrying the validation reason; and no
\* request is answered with an internal error.
C21_EndpointAnswers ==
    up =>
    \A req \in Requests :
    \A token \in {GetTokenFromRequest(req)} :
    \A c \in {CheckTokenCall(tokens, disk, writable, req, now)} :
    \A v \in {IsValidCall(tokens, disk, writable, token, now)} :
    \A endpoint \in Endpoints :
    \A a \in {EndpointAnswer(endpoint, c)} :
        /\ a.ok <=> (token # "" /\ v.valid)
        /\ token = "" =>
               /\ ~a.ok /\ a.detail = "Missing token" /\ a.status = 400
               /\ ~c.called /\ c.tokens = tokens /\ c.disk = disk
        /\ (token # "" /\ ~v.valid) =>
               /\ ~a.ok /\ a.detail = v.reason /\ a.status = 403
               /\ c.tokens = tokens
        /\ a # InternalError

\* ---------------------------------------------------------------------
\* What holds in every state for a record t that is past its expiry:
\* validate refuses it and changes nothing; activate and deactivate keep the
\* record and its expires_at, and validate refuses it after either; so does
\* every sync descriptor, the renewal included; a create of t is refused;
\* and after delete, a create or a sync of the renewal yields a record that
\* validates.
C22_Lapsed ==
    \A t \in DOMAIN tokens :
        Expired(tokens[t], now) =>
        /\ \A v \in {IsValidCall(tokens, disk, writable, t, now)} :
               ~v.valid /\ v.tokens = tokens
        /\ \A flag \in BOOLEAN :
           \A a \in {SetActiveCall(tokens, disk, writable, t, flag)} :
               /\ t \in DOMAIN a.tokens
               /\ a.tokens[t].expires_at = tokens[t].expires_at
               /\ ~IsValidCall(a.tokens, a.disk, writable, t, now).valid
        /\ \A d \in Descriptors \cup {Renewal} :
           \A post \in {SyncEntry(tokens, d, now)} :
               /\ t \in DOMAIN post
               /\ post[t].expires_at = tokens[t].expires_at
               /\ ~IsValidCall(post, disk, writable, t, now).valid
        /\ \A c \in {CreateCall(tokens, disk, writable, t, NoInt, 1, "", t,
                                 now)} :
               ~c.ok /\ c.tokens = tokens
        /\ \A x \in {DeleteCall(tokens, disk, writable, t)} :
               /\ \A c \in {CreateCall(x.tokens, x.disk, writable, t, NoInt,
                                        1, "", t, now)} :
                      c.ok /\ IsValidCall(c.tokens, c.disk, writable, t,
                                          now).valid
               /\ t = Renewal.token =>
                      IsValidCall(SyncEntry(x.tokens, Renewal, now), x.disk,
                                  writable, t, now).valid

\* What holds of every step for a record t that is past its expiry and
\* still in the store after the step (the clock included): it has the same
\* expires_at, is still past it, and the step is not a validation of t that
\* returned valid.
C22_Step ==
    \A t \in DOMAIN tokens \cap DOMAIN tokens' :
        Expired(tokens[t], now) =>
        /\ now' >= now
        /\ tokens'[t].expires_at = tokens[t].expires_at
        /\ Expired(tokens'[t], now')
        /\ tokens'[t].used_count = tokens[t].used_count

\* C22: expiry is permanent for a record.  The clock never goes back, and
\* once validate(t) would fail with 'expired', no validate, activate,
\* deactivate or sync batch (a descriptor with a later expires_at for t
\* included) makes validate(t) return valid again, because none changes
\* expires_at of an existing record; only deleting t and creating or
\* syncing it anew does.
C22_ExpiryPermanent == [](C22_Lapsed) /\ [][C22_Step]_vars

\* The renewal has been synced onto the record of t1 that a sync inserted
\* with expiry 0 and description "d" and that was validated once while it
\* was valid: an hour later the record has the renewal's (empty)
\* description, is active, still has expiry 0 and is past it.
C22_Witness ==
    /\ resp.op = "sync" /\ resp.synced = 1
    /\ now = HOUR
    /\ "t1" \in DOMAIN tokens
    /\ tokens["t1"].description = Renewal.description
    /\ tokens["t1"].active
    /\ tokens["t1"].expires_at = Dt(0)
    /\ tokens["t1"].used_count = 2
    /\ Expired(tokens["t1"], now)

====
